---------------------------- MODULE Spec2Model ----------------------------
(***************************************************************************)
(* A model of archon_emotiv: src/python/app.py (the CortexClient event     *)
(* handlers, the /metrics handler, the lock-guarded latest_metrics dict    *)
(* and flow_score) and src/python/attention_reader.py (AttentionReader).   *)
(*                                                                         *)
(* Conventions.                                                            *)
(*  - A Python dict is a TLA+ function whose DOMAIN is the dict's key set. *)
(*  - A Python list is a sequence; Python positions are 0-based, so the    *)
(*    element data['met'][i] is At(frame, i) == frame[i + 1].              *)
(*  - A label is a string; its text, for the substring test                *)
(*    'isActive' in label, is the character sequence Chars(label).         *)
(*  - flow_score's numbers are exact rationals <<numerator, denominator>>  *)
(*    in lowest terms (the code computes in binary floating point; the     *)
(*    rounding of the float operations is not modelled).                   *)
(***************************************************************************)
EXTENDS Integers, Sequences, FiniteSets

(***************************************************************************)
(* Bounds of the model.                                                    *)
(***************************************************************************)
\* Longest label list of a label-set event.
MaxLabels == 3
\* Longest value frame of a value-frame event.
MaxFrame == 3
\* Number of concurrent GET /metrics requests (Flask request threads).
NumReaders == 2
\* The arguments of flow_score are multiples of 1 / ScoreDen.
ScoreDen == 3

\* The session-ready events the collaborator delivers in one run are at most
\* this many (a session may be created anew on the same connection).
MaxSessionReady == 2

(***************************************************************************)
(* Inputs.                                                                 *)
(***************************************************************************)
\* The readings a frame may carry.
Values == {1, 2}

\* The label strings the collaborator may announce.
Labels == {"foc", "eng", "isActive/foc"}

\* The stream names an event may carry.
Streams == {"met", "eeg"}

\* The text of a label, character by character.
Chars(label) ==
  CASE label = "foc" -> <<"f", "o", "c">>
    [] label = "eng" -> <<"e", "n", "g">>
    [] label = "str" -> <<"s", "t", "r">>
    [] label = "isActive/foc" ->
         <<"i", "s", "A", "c", "t", "i", "v", "e", "/", "f", "o", "c">>

\* All sequences over S of length at most n.
SeqUpTo(S, n) == UNION {[1..k -> S] : k \in 0..n}

LabelSets == SeqUpTo(Labels, MaxLabels)
Frames == SeqUpTo(Values, MaxFrame)

\* The label sets and frames of the concurrent specification: an empty and
\* two non-empty layouts; a short frame and two full frames that differ in
\* every position.
ConcLabelSets == {<<>>, <<"foc", "eng">>, <<"isActive/foc", "eng">>}
ConcFrames == {<<1>>, <<1, 2>>, <<2, 1>>}

(***************************************************************************)
(* Python helpers.                                                         *)
(***************************************************************************)
EmptyDict == [k \in {} |-> 0]

\* d[k] = v
DictSet(d, k, v) == [x \in (DOMAIN d) \cup {k} |-> IF x = k THEN v ELSE d[x]]

\* seq[i], 0-based
At(seq, i) == seq[i + 1]

\* sub in s (substring test on texts)
Contains(sub, s) ==
  \E i \in 0..(Len(s) - Len(sub)) : SubSeq(s, i + 1, i + Len(sub)) = sub

\* The administrative marker of line 57.
Marker == <<"i", "s", "A", "c", "t", "i", "v", "e">>

\* The thread of the CortexClient callbacks; request threads are 1..NumReaders.
CortexClientThread == 0
Readers == 1..NumReaders

VARIABLES
  metric_indices,   \* self.metric_indices: dict label -> position
  latest_metrics,   \* the global dict latest_metrics
  metrics_lock,     \* the set of threads holding metrics_lock (empty: free)
  cpc,              \* where the CortexClient callback thread stands
  data,             \* on_new_met_data: data['met'] of the event being handled
  new_metrics,      \* on_new_met_data: the local dict new_metrics
  pending,          \* keys of new_metrics that dict.update has yet to write
  pre,              \* history: latest_metrics when the current frame arrived
  last_met_labels,  \* history: the labels of the latest "met" label-set event
  rpc,              \* per request thread: where get_metrics stands
  ref,              \* per request thread: the object the local `response` names
  copy,             \* per request thread: the contents of its own dict object
  seen,             \* history: the last completely merged snapshot at copy time
  reply,            \* per request thread: the HTTP reply sent (status, body)
  score_args,       \* flow_score: the six arguments of the call (or NoCall)
  score_result,     \* flow_score: the value returned (or NoCall)
  session,          \* the session with the collaborator: how far it has come
  sub_requests,     \* CortexClient: the stream lists passed to c.sub_request
  ready_count,      \* history: the number of session-ready events delivered
  last_event,       \* history: what the collaborator signalled last
  iter_indices,     \* on_new_met_data: the dict the for loop iterates over
  iter_todo,        \* on_new_met_data: the keys the for loop has yet to visit
  streams,          \* AttentionReader: self.streams
  reader_requests,  \* AttentionReader: the stream lists passed to c.sub_request
  met_labels,       \* AttentionReader: self.met_labels
  attention_index,  \* AttentionReader: self.attention_index
  printed           \* AttentionReader: what on_new_met_data printed last

consumerVars ==
  <<metric_indices, cpc, data, new_metrics, pending, pre, last_met_labels>>
storeVars == <<latest_metrics, metrics_lock>>
readerVars == <<rpc, ref, copy, seen, reply>>
scoreVars == <<score_args, score_result>>
sessionVars == <<session, sub_requests, ready_count>>
loopVars == <<iter_indices, iter_todo>>
attentionVars == <<streams, reader_requests, met_labels, attention_index, printed>>

\* What the steps inside on_new_met_data, get_metrics and flow_score leave
\* alone: the session, the event history, the item-by-item loop and
\* AttentionReader.
restVars == <<sessionVars, last_event, loopVars, attentionVars>>
vars == <<metric_indices, latest_metrics, metrics_lock, cpc, data, new_metrics,
          pending, pre, last_met_labels, rpc, ref, copy, seen, reply,
          score_args, score_result, session, sub_requests, ready_count,
          last_event, iter_indices, iter_todo, streams, reader_requests,
          met_labels, attention_index, printed>>

\* No reply sent yet.
NoReply == [status |-> 0, body |-> EmptyDict]

\* No call of flow_score made, or none returned yet.
NoCall == <<>>

\* No event delivered yet.
NoEvent == [kind |-> "none"]

\* AttentionReader: self.streams before start() has set it.
Unset == <<"unset">>

\* AttentionReader: on_new_met_data has printed nothing yet.
NothingPrinted == [what |-> "nothing"]

\* The variables of the session, of the events, of the for loop taken item by
\* item and of AttentionReader as construction leaves them
\* (AttentionReader.__init__, lines 23-24 of attention_reader.py).
InitRest ==
  /\ session = "idle"
  /\ sub_requests = <<>>
  /\ ready_count = 0
  /\ last_event = NoEvent
  /\ iter_indices = EmptyDict
  /\ iter_todo = {}
  /\ streams = Unset
  /\ reader_requests = <<>>
  /\ met_labels = <<>>
  /\ attention_index = -1
  /\ printed = NothingPrinted

(***************************************************************************)
(* State after construction: CortexClient.__init__ and the module globals. *)
(***************************************************************************)
Init ==
  /\ metric_indices = EmptyDict
  /\ latest_metrics = EmptyDict
  /\ metrics_lock = {}
  /\ cpc = "idle"
  /\ data = <<>>
  /\ new_metrics = EmptyDict
  /\ pending = {}
  /\ pre = EmptyDict
  /\ last_met_labels = <<>>
  /\ rpc = [r \in Readers |-> "idle"]
  /\ ref = [r \in Readers |-> "none"]
  /\ copy = [r \in Readers |-> EmptyDict]
  /\ seen = [r \in Readers |-> EmptyDict]
  /\ reply = [r \in Readers |-> NoReply]
  /\ score_args = NoCall
  /\ score_result = NoCall
  /\ InitRest

(***************************************************************************)
(* CortexClient.on_new_data_labels (lines 52-58).                          *)
(***************************************************************************)
\* The dict comprehension of line 57, label by label from position i on: a
\* later occurrence of a label overwrites the position of an earlier one.
RECURSIVE ResolveFrom(_, _, _)
ResolveFrom(labels, i, acc) ==
  IF i >= Len(labels) THEN acc
  ELSE ResolveFrom(labels, i + 1,
         IF Contains(Marker, Chars(At(labels, i))) THEN acc
         ELSE DictSet(acc, At(labels, i), i))

\* A label's test of line 57: it carries no administrative marker.
NotAdministrative(label) == ~Contains(Marker, Chars(label))

\* Variant: the labels are filtered first and numbered afterwards.
LabelResolverRenumbered(labels) ==
  ResolveFrom(SelectSeq(labels, NotAdministrative), 0, EmptyDict)

\* Variant: the first occurrence of a repeated label keeps its position.
LabelResolverFirst(labels) ==
  LET kept == {i \in 1..Len(labels) : NotAdministrative(labels[i])}
  IN [name \in {labels[i] : i \in kept} |->
        (CHOOSE i \in kept : /\ labels[i] = name
                             /\ \A j \in kept : labels[j] = name => i <= j) - 1]

LabelResolver(labels) == ResolveFrom(labels, 0, EmptyDict)

\* dict.update: the entries of b, and those of a under the other keys.
DictUpdate(a, b) ==
  [k \in DOMAIN a \cup DOMAIN b |-> IF k \in DOMAIN b THEN b[k] ELSE a[k]]

\* Variant: the resolved labels are merged into the MetricIndex held so far
\* (self.metric_indices.update(...)) instead of replacing it.
OnNewDataLabelsMerge(streamName, labels) ==
  /\ cpc = "idle"
  /\ IF streamName = "met"
       THEN /\ metric_indices' = DictUpdate(metric_indices, LabelResolver(labels))
            /\ last_met_labels' = labels
       ELSE UNCHANGED <<metric_indices, last_met_labels>>
  /\ UNCHANGED <<cpc, data, new_metrics, pending, pre, storeVars, readerVars>>
  /\ UNCHANGED scoreVars

\* A dict without the entries whose key is not in keys.
Restrict(d, keys) == [k \in DOMAIN d \cap keys |-> d[k]]

\* Variant: a label set also purges from latest_metrics the names it no
\* longer announces.
OnNewDataLabelsPurge(streamName, labels) ==
  /\ cpc = "idle"
  /\ IF streamName = "met"
       THEN /\ metric_indices' = LabelResolver(labels)
            /\ last_met_labels' = labels
            /\ latest_metrics' = Restrict(latest_metrics, DOMAIN metric_indices')
       ELSE UNCHANGED <<metric_indices, last_met_labels, latest_metrics>>
  /\ UNCHANGED <<cpc, data, new_metrics, pending, pre, metrics_lock, readerVars>>
  /\ UNCHANGED scoreVars

\* The callbacks run one at a time on the collaborator's thread: an event is
\* taken only when the previous callback has returned.
OnNewDataLabels(streamName, labels) ==
  /\ cpc = "idle"
  /\ IF streamName = "met"
       THEN /\ metric_indices' = LabelResolver(labels)
            /\ last_met_labels' = labels
       ELSE UNCHANGED <<metric_indices, last_met_labels>>
  /\ UNCHANGED <<cpc, data, new_metrics, pending, pre, storeVars, readerVars>>
  /\ UNCHANGED scoreVars

(***************************************************************************)
(* CortexClient.on_new_met_data (lines 60-75).                             *)
(***************************************************************************)
RECURSIVE Project_From_Short(_, _, _, _)
Project_From_Short(idx, keys, frame, acc) ==
  IF keys = {} THEN acc
  ELSE LET label == CHOOSE k \in keys : TRUE
           index == idx[label]
       IN Project_From_Short(idx, keys \ {label}, frame,
            IF Len(frame) > index + 1
            THEN DictSet(acc, label, At(frame, index))
            ELSE acc)

\* The loop of lines 67-70 over the items of idx not yet visited (keys).
RECURSIVE ProjectFrom(_, _, _, _)
ProjectFrom(idx, keys, frame, acc) ==
  IF keys = {} THEN acc
  ELSE LET label == CHOOSE k \in keys : TRUE
           index == idx[label]
       IN ProjectFrom(idx, keys \ {label}, frame,
            IF Len(frame) > index THEN DictSet(acc, label, At(frame, index))
            ELSE acc)

\* Variant: the bound check of line 69 is off by one and drops the frame's
\* last element.
ProjectSkipLast(idx, frame) ==
  Project_From_Short(idx, DOMAIN idx, frame, EmptyDict)

Project(idx, frame) == ProjectFrom(idx, DOMAIN idx, frame, EmptyDict)

\* The event arrives: data = kwargs.get('data') (lines 60-62).
OnNewMetData(frame) ==
  /\ cpc = "idle"
  /\ cpc' = "check"
  /\ data' = frame
  /\ pre' = latest_metrics
  /\ UNCHANGED <<metric_indices, new_metrics, pending, last_met_labels,
                 storeVars, readerVars>>
  /\ UNCHANGED scoreVars

\* Variant: the handler does not return on an empty MetricIndex.
MetCheckNoReturn ==
  /\ cpc = "check"
  /\ cpc' = "project"
  /\ UNCHANGED <<metric_indices, data, new_metrics, pending, pre,
                 last_met_labels, storeVars, readerVars>>
  /\ UNCHANGED <<scoreVars, restVars>>

\* if not self.metric_indices: return (lines 64-65).
MetCheck ==
  /\ cpc = "check"
  /\ cpc' = IF metric_indices = EmptyDict THEN "done" ELSE "project"
  /\ UNCHANGED <<metric_indices, data, new_metrics, pending, pre,
                 last_met_labels, storeVars, readerVars>>
  /\ UNCHANGED <<scoreVars, restVars>>

\* new_metrics = {}, the for loop, and if new_metrics: (lines 67-72).
MetProject ==
  /\ cpc = "project"
  /\ new_metrics' = Project(metric_indices, data)
  /\ pending' = DOMAIN new_metrics'
  /\ cpc' = IF new_metrics' = EmptyDict THEN "done" ELSE "lock"
  /\ UNCHANGED <<metric_indices, data, pre, last_met_labels, storeVars,
                 readerVars>>
  /\ UNCHANGED <<scoreVars, restVars>>

\* with metrics_lock: entry (line 73); blocks while another thread holds it.
MetLock ==
  /\ cpc = "lock"
  /\ metrics_lock = {}
  /\ metrics_lock' = {CortexClientThread}
  /\ cpc' = "update"
  /\ UNCHANGED <<metric_indices, data, new_metrics, pending, pre,
                 last_met_labels, latest_metrics, readerVars>>
  /\ UNCHANGED <<scoreVars, restVars>>

\* Variant: the lock is taken per entry, not around the whole update.
MetUpdatePerEntryLock ==
  /\ cpc = "update"
  /\ pending # {}
  /\ \E k \in pending :
       /\ latest_metrics' = DictSet(latest_metrics, k, new_metrics[k])
       /\ pending' = pending \ {k}
  /\ IF pending' # {}
       THEN /\ metrics_lock' = metrics_lock \ {CortexClientThread}
            /\ cpc' = "lock"
       ELSE UNCHANGED <<metrics_lock, cpc>>
  /\ UNCHANGED <<metric_indices, data, new_metrics, pre, last_met_labels,
                 readerVars>>
  /\ UNCHANGED <<scoreVars, restVars>>

\* Variant: the snapshot is replaced by the update instead of merged with it.
MetUpdateReplace ==
  /\ cpc = "update"
  /\ pending # {}
  /\ latest_metrics' = new_metrics
  /\ pending' = {}
  /\ UNCHANGED <<metric_indices, cpc, data, new_metrics, pre, last_met_labels,
                 metrics_lock, readerVars>>
  /\ UNCHANGED <<scoreVars, restVars>>

\* latest_metrics.update(new_metrics), one entry at a time (line 74).
MetUpdate ==
  /\ cpc = "update"
  /\ pending # {}
  /\ \E k \in pending :
       /\ latest_metrics' = DictSet(latest_metrics, k, new_metrics[k])
       /\ pending' = pending \ {k}
  /\ UNCHANGED <<metric_indices, cpc, data, new_metrics, pre, last_met_labels,
                 metrics_lock, readerVars>>
  /\ UNCHANGED <<scoreVars, restVars>>

\* with metrics_lock: exit, once update has written every entry (line 74).
MetUnlock ==
  /\ cpc = "update"
  /\ pending = {}
  /\ metrics_lock' = metrics_lock \ {CortexClientThread}
  /\ cpc' = "done"
  /\ UNCHANGED <<metric_indices, data, new_metrics, pending, pre,
                 last_met_labels, latest_metrics, readerVars>>
  /\ UNCHANGED <<scoreVars, restVars>>

\* The callback returns (line 65, or after the print of line 75).
MetReturn ==
  /\ cpc = "done"
  /\ cpc' = "idle"
  /\ data' = <<>>
  /\ new_metrics' = EmptyDict
  /\ pre' = EmptyDict
  /\ UNCHANGED <<metric_indices, pending, last_met_labels, storeVars,
                 readerVars>>
  /\ UNCHANGED <<scoreVars, restVars>>

(***************************************************************************)
(* CortexClient.on_inform_error (lines 77-79): prints, changes nothing.    *)
(***************************************************************************)
\* Variant: the callback treats the error as fatal and stops taking events.
OnInformErrorStops ==
  /\ cpc = "idle"
  /\ cpc' = "stopped"
  /\ UNCHANGED <<metric_indices, data, new_metrics, pending, pre,
                 last_met_labels, storeVars, readerVars, scoreVars>>

OnInformError ==
  /\ cpc = "idle"
  /\ UNCHANGED <<consumerVars, storeVars, readerVars, scoreVars>>

\* The snapshot as the last completed merge left it.
Committed ==
  IF cpc \in {"check", "project", "lock", "update"} THEN pre
  ELSE latest_metrics

(***************************************************************************)
(* get_metrics (lines 84-91), one Flask request thread r per request.      *)
(***************************************************************************)
\* The dict the local name `response` of thread r is bound to.
Deref(r) == IF ref[r] = "global" THEN latest_metrics ELSE copy[r]

\* A GET /metrics request is dispatched to get_metrics (lines 84-85).
GetMetricsCall(r) ==
  /\ rpc[r] = "idle"
  /\ rpc' = [rpc EXCEPT ![r] = "lock"]
  /\ reply' = [reply EXCEPT ![r] = NoReply]
  /\ UNCHANGED <<consumerVars, storeVars, ref, copy, seen>>
  /\ UNCHANGED <<scoreVars, restVars>>

\* with metrics_lock: entry (line 89); blocks while another thread holds it.
GetMetricsLock(r) ==
  /\ rpc[r] = "lock"
  /\ metrics_lock = {}
  /\ metrics_lock' = {r}
  /\ rpc' = [rpc EXCEPT ![r] = "copy"]
  /\ UNCHANGED <<consumerVars, latest_metrics, ref, copy, seen, reply>>
  /\ UNCHANGED <<scoreVars, restVars>>

\* Variant: response = latest_metrics, the global dict itself.
GetMetricsAlias(r) ==
  /\ rpc[r] = "copy"
  /\ ref' = [ref EXCEPT ![r] = "global"]
  /\ seen' = [seen EXCEPT ![r] = Committed]
  /\ rpc' = [rpc EXCEPT ![r] = "unlock"]
  /\ UNCHANGED <<consumerVars, storeVars, copy, reply>>
  /\ UNCHANGED <<scoreVars, restVars>>

\* response = latest_metrics.copy(): a new dict object (line 90).
GetMetricsCopy(r) ==
  /\ rpc[r] = "copy"
  /\ ref' = [ref EXCEPT ![r] = "own"]
  /\ copy' = [copy EXCEPT ![r] = latest_metrics]
  /\ seen' = [seen EXCEPT ![r] = Committed]
  /\ rpc' = [rpc EXCEPT ![r] = "unlock"]
  /\ UNCHANGED <<consumerVars, storeVars, reply>>
  /\ UNCHANGED <<scoreVars, restVars>>

\* Variant: the lock is acquired by hand and never released.
GetMetricsNoRelease(r) ==
  /\ rpc[r] = "unlock"
  /\ rpc' = [rpc EXCEPT ![r] = "respond"]
  /\ UNCHANGED <<consumerVars, storeVars, ref, copy, seen, reply>>
  /\ UNCHANGED <<scoreVars, restVars>>

\* with metrics_lock: exit (line 90).
GetMetricsUnlock(r) ==
  /\ rpc[r] = "unlock"
  /\ metrics_lock' = metrics_lock \ {r}
  /\ rpc' = [rpc EXCEPT ![r] = "respond"]
  /\ UNCHANGED <<consumerVars, latest_metrics, ref, copy, seen, reply>>
  /\ UNCHANGED <<scoreVars, restVars>>

\* Variant: an empty snapshot is answered with 404 instead of an empty object.
GetMetricsReturnNotFound(r) ==
  /\ rpc[r] = "respond"
  /\ reply' = [reply EXCEPT ![r] =
                 IF Deref(r) = EmptyDict
                 THEN [status |-> 404, body |-> EmptyDict]
                 ELSE [status |-> 200, body |-> Deref(r)]]
  /\ ref' = [ref EXCEPT ![r] = "none"]
  /\ copy' = [copy EXCEPT ![r] = EmptyDict]
  /\ rpc' = [rpc EXCEPT ![r] = "returned"]
  /\ UNCHANGED <<consumerVars, storeVars, seen>>
  /\ UNCHANGED <<scoreVars, restVars>>

\* return jsonify(response): the reply is 200 with the dict serialized, and
\* the local name goes out of scope (line 91).
GetMetricsReturn(r) ==
  /\ rpc[r] = "respond"
  /\ reply' = [reply EXCEPT ![r] = [status |-> 200, body |-> Deref(r)]]
  /\ ref' = [ref EXCEPT ![r] = "none"]
  /\ copy' = [copy EXCEPT ![r] = EmptyDict]
  /\ rpc' = [rpc EXCEPT ![r] = "returned"]
  /\ UNCHANGED <<consumerVars, storeVars, seen>>
  /\ UNCHANGED <<scoreVars, restVars>>

\* The client has read the reply; the request thread serves the next request.
GetMetricsDone(r) ==
  /\ rpc[r] = "returned"
  /\ rpc' = [rpc EXCEPT ![r] = "idle"]
  /\ reply' = [reply EXCEPT ![r] = NoReply]
  /\ seen' = [seen EXCEPT ![r] = EmptyDict]
  /\ UNCHANGED <<consumerVars, storeVars, ref, copy>>
  /\ UNCHANGED <<scoreVars, restVars>>

(***************************************************************************)
(* flow_score (lines 100-137), on exact rationals <<numerator, denominator>> *)
(* with a positive denominator, in lowest terms.                           *)
(***************************************************************************)
RECURSIVE GCD(_, _)
GCD(a, b) == IF b = 0 THEN a ELSE GCD(b, a % b)

Abs(n) == IF n < 0 THEN -n ELSE n

\* The rational n / d (d > 0) in lowest terms.
Rat(n, d) == LET g == GCD(Abs(n), d) IN <<n \div g, d \div g>>

RAdd(a, b) == Rat(a[1] * b[2] + b[1] * a[2], a[2] * b[2])
RSub(a, b) == Rat(a[1] * b[2] - b[1] * a[2], a[2] * b[2])
RMul(a, b) == Rat(a[1] * b[1], a[2] * b[2])
RLess(a, b) == a[1] * b[2] < b[1] * a[2]

Zero == Rat(0, 1)
One == Rat(1, 1)
Half == Rat(1, 2)

\* Python's min(a, b) and max(a, b): the first argument unless the second is
\* strictly smaller (larger).
PyMin(a, b) == IF RLess(b, a) THEN b ELSE a
PyMax(a, b) == IF RLess(a, b) THEN b ELSE a

\* max(0, min(1, x)) (lines 120-125 and 137).
Clamp01(x) == PyMax(Zero, PyMin(One, x))

\* Variant: the curve without its offset.
inverted_u_curve_no_offset(x) ==
  RMul(Rat(-4, 1), RMul(RSub(x, Half), RSub(x, Half)))

\* -4 * (x - 0.5) ** 2 + 1 (lines 115-117).
inverted_u_curve(x) ==
  RAdd(RMul(Rat(-4, 1), RMul(RSub(x, Half), RSub(x, Half))), One)

\* The sum of line 136 of the contributions of lines 128-133, the six
\* arguments being already normalized.
TotalScore(stress, engagement, interest, excitement, attention, relaxation) ==
  LET stress_score == RMul(inverted_u_curve(stress), Rat(15, 100))
      excitement_score == RMul(inverted_u_curve(excitement), Rat(15, 100))
      engagement_score == RMul(engagement, Rat(20, 100))
      interest_score == RMul(interest, Rat(15, 100))
      attention_score == RMul(attention, Rat(25, 100))
      relaxation_score == RMul(inverted_u_curve(relaxation), Rat(10, 100))
  IN RAdd(RAdd(RAdd(RAdd(RAdd(stress_score, excitement_score),
                              engagement_score), interest_score),
                attention_score), relaxation_score)

\* Variant: the score is returned as a percentage.
flow_score_percent(stress, engagement, interest, excitement, attention, relaxation) ==
  RMul(Rat(100, 1),
       Clamp01(TotalScore(Clamp01(stress), Clamp01(engagement),
                          Clamp01(interest), Clamp01(excitement),
                          Clamp01(attention), Clamp01(relaxation))))

\* Variant: stress is not normalized (line 120 missing).
flow_score_stress_raw(stress, engagement, interest, excitement, attention, relaxation) ==
  Clamp01(TotalScore(stress, Clamp01(engagement), Clamp01(interest),
                     Clamp01(excitement), Clamp01(attention),
                     Clamp01(relaxation)))

flow_score(stress, engagement, interest, excitement, attention, relaxation) ==
  Clamp01(TotalScore(Clamp01(stress), Clamp01(engagement), Clamp01(interest),
                     Clamp01(excitement), Clamp01(attention),
                     Clamp01(relaxation)))

\* The arguments of the calls: the multiples of 1 / ScoreDen from one step
\* below 0 to one step above 1, and the peak of the curve.
ScoreInputs == {Rat(k, ScoreDen) : k \in (-1)..(ScoreDen + 1)} \cup {Half}

\* A call of flow_score returns.
FlowScoreCall ==
  /\ score_args # NoCall
  /\ score_result = NoCall
  /\ score_result' = flow_score(score_args[1], score_args[2], score_args[3],
                                score_args[4], score_args[5], score_args[6])
  /\ UNCHANGED <<consumerVars, storeVars, readerVars, score_args, restVars>>

(***************************************************************************)
(* The session: CortexClient.run and on_create_session_done (lines 37-50), *)
(* and the callbacks bound to the collaborator's events (lines 31-34).     *)
(* session is "idle" until c.open() is called, "connecting" until the      *)
(* collaborator has its transport open, "session_pending" until a          *)
(* subscription request is issued, and "subscribed" from then on.          *)
(***************************************************************************)
\* Variant: on_new_met_data is bound to the data event of every stream.
BindingsEveryStream ==
  [event \in {"create_session_done", "new_data_labels", "new_met_data",
              "new_eeg_data", "inform_error"} |->
     CASE event = "create_session_done" -> "on_create_session_done"
       [] event = "new_data_labels" -> "on_new_data_labels"
       [] event = "new_met_data" -> "on_new_met_data"
       [] event = "new_eeg_data" -> "on_new_met_data"
       [] event = "inform_error" -> "on_inform_error"]

\* self.c.bind(...): the callback bound to each event name (lines 31-34;
\* AttentionReader binds the same four, lines 19-22 of attention_reader.py).
Bindings ==
  [event \in {"create_session_done", "new_data_labels", "new_met_data",
              "inform_error"} |->
     CASE event = "create_session_done" -> "on_create_session_done"
       [] event = "new_data_labels" -> "on_new_data_labels"
       [] event = "new_met_data" -> "on_new_met_data"
       [] event = "inform_error" -> "on_inform_error"]

\* The callback an event of the collaborator invokes; none is bound to an
\* event name that bind() was not called with.
Handles(event) ==
  IF event \in DOMAIN Bindings THEN Bindings[event] ELSE "nothing"

\* The event name under which the collaborator delivers a value frame of a
\* stream: the stream's own data event.
DataEvent(streamName) ==
  CASE streamName = "met" -> "new_met_data"
    [] streamName = "eeg" -> "new_eeg_data"

\* Variant: run() issues the subscription request itself, right after open().
RunSubscribesAtOnce ==
  /\ session = "idle"
  /\ session' = "subscribed"
  /\ sub_requests' = Append(sub_requests, <<"met">>)
  /\ UNCHANGED ready_count

\* run(): self.c.open() (line 42); the thread then sleeps for ever.
Run ==
  /\ session = "idle"
  /\ session' = "connecting"
  /\ UNCHANGED <<sub_requests, ready_count>>

\* on_create_session_done (lines 48-50): self.c.sub_request(['met']).
OnCreateSessionDone ==
  /\ sub_requests' = Append(sub_requests, <<"met">>)
  /\ session' = "subscribed"

(***************************************************************************)
(* AttentionReader (attention_reader.py).                                  *)
(***************************************************************************)
\* list.index: the 0-based position of the first occurrence of x in seq.
IndexOf(seq, x) ==
  (CHOOSE i \in 1..Len(seq) :
     /\ seq[i] = x
     /\ \A j \in 1..(i - 1) : seq[j] # x) - 1

\* x in seq, for a list.
InList(x, seq) == \E i \in 1..Len(seq) : seq[i] = x

\* start() with no headset id (lines 26-33): self.streams = ['met'], then
\* self.c.open().
ReaderStart ==
  /\ streams' = <<"met">>
  /\ UNCHANGED <<reader_requests, met_labels, attention_index, printed>>

\* on_create_session_done (lines 41-46): self.sub(self.streams), that is
\* self.c.sub_request(streams) (lines 35-39).
ReaderOnCreateSessionDone ==
  /\ reader_requests' = Append(reader_requests, streams)
  /\ UNCHANGED <<streams, met_labels, attention_index, printed>>

\* Variant: the stream name of a label set is not looked at.
ReaderOnNewDataLabelsAnyStream(streamName, labels) ==
  /\ met_labels' = labels
  /\ attention_index' = IF InList("foc", labels) THEN IndexOf(labels, "foc")
                        ELSE attention_index
  /\ UNCHANGED <<streams, reader_requests, printed>>

\* on_new_data_labels (lines 48-60): attention_index is assigned only when
\* 'foc' is among the labels; the else branch prints a warning.
ReaderOnNewDataLabels(streamName, labels) ==
  /\ IF streamName = "met"
       THEN /\ met_labels' = labels
            /\ attention_index' =
                 IF InList("foc", labels) THEN IndexOf(labels, "foc")
                 ELSE attention_index
       ELSE UNCHANGED <<met_labels, attention_index>>
  /\ UNCHANGED <<streams, reader_requests, printed>>

\* on_new_met_data (lines 62-72): prints the attention value, or the raw data.
ReaderOnNewMetData(frame) ==
  /\ printed' =
       IF attention_index # -1 /\ Len(frame) > attention_index
       THEN [what |-> "attention", value |-> At(frame, attention_index)]
       ELSE [what |-> "raw", value |-> frame]
  /\ UNCHANGED <<streams, reader_requests, met_labels, attention_index>>

\* on_inform_error (lines 74-79): prints the error.
ReaderOnInformError == UNCHANGED attentionVars

(***************************************************************************)
(* Specifications.                                                         *)
(***************************************************************************)
\* A step of the callback thread inside on_new_met_data.
MetStep ==
  \/ MetCheck
  \/ MetProject
  \/ MetLock
  \/ MetUpdate
  \/ MetUnlock
  \/ MetReturn

\* A step of request thread r.
GetMetricsStep(r) ==
  \/ GetMetricsCall(r)
  \/ GetMetricsLock(r)
  \/ GetMetricsCopy(r)
  \/ GetMetricsUnlock(r)
  \/ GetMetricsReturn(r)
  \/ GetMetricsDone(r)

\* The callback thread and the request threads, interleaved.
Next ==
  \/ \E streamName \in Streams, labels \in ConcLabelSets :
       OnNewDataLabels(streamName, labels) /\ UNCHANGED restVars
  \/ \E frame \in ConcFrames : OnNewMetData(frame) /\ UNCHANGED restVars
  \/ OnInformError /\ UNCHANGED restVars
  \/ MetStep
  \/ \E r \in Readers : GetMetricsStep(r)

Spec == Init /\ [][Next]_vars

\* The callback thread alone, over every label set and frame of the bounds.
NextIngest ==
  \/ \E streamName \in Streams, labels \in LabelSets :
       OnNewDataLabels(streamName, labels) /\ UNCHANGED restVars
  \/ \E frame \in Frames : OnNewMetData(frame) /\ UNCHANGED restVars
  \/ OnInformError /\ UNCHANGED restVars
  \/ MetStep

SpecIngest == Init /\ [][NextIngest]_vars

\* Fair scheduling: a thread that can take a step takes one, and a thread that
\* waits for metrics_lock gets it if it is free again and again. Events and
\* requests arrive as they please.
Fairness ==
  /\ WF_vars(MetCheck \/ MetProject \/ MetUpdate \/ MetUnlock \/ MetReturn)
  /\ SF_vars(MetLock)
  /\ \A r \in Readers :
       /\ WF_vars(GetMetricsCopy(r) \/ GetMetricsUnlock(r)
                    \/ GetMetricsReturn(r))
       /\ SF_vars(GetMetricsLock(r))

\* The threads of Spec over one metric: waiting for the lock and being
\* answered do not depend on what the dicts hold.
LiveLabelSets == {<<>>, <<"foc">>}
LiveFrames == {<<1>>, <<2>>}

NextLive ==
  \/ \E streamName \in Streams, labels \in LiveLabelSets :
       OnNewDataLabels(streamName, labels) /\ UNCHANGED restVars
  \/ \E frame \in LiveFrames : OnNewMetData(frame) /\ UNCHANGED restVars
  \/ OnInformError /\ UNCHANGED restVars
  \/ MetStep
  \/ \E r \in Readers : GetMetricsStep(r)

FairSpec == Init /\ [][NextLive]_vars /\ Fairness

\* flow_score called on every tuple of the input grid.
InitScore ==
  /\ metric_indices = EmptyDict
  /\ latest_metrics = EmptyDict
  /\ metrics_lock = {}
  /\ cpc = "idle"
  /\ data = <<>>
  /\ new_metrics = EmptyDict
  /\ pending = {}
  /\ pre = EmptyDict
  /\ last_met_labels = <<>>
  /\ rpc = [r \in Readers |-> "idle"]
  /\ ref = [r \in Readers |-> "none"]
  /\ copy = [r \in Readers |-> EmptyDict]
  /\ seen = [r \in Readers |-> EmptyDict]
  /\ reply = [r \in Readers |-> NoReply]
  /\ score_args \in [1..6 -> ScoreInputs]
  /\ score_result = NoCall
  /\ InitRest

NextScore == FlowScoreCall

SpecScore == InitScore /\ [][NextScore]_vars

\* The two programs driven by the collaborator's events: start, the session
\* and its subscription, then label sets, value frames and error
\* notifications of any stream, each delivered when the callback of the
\* event before has returned. CortexClient and AttentionReader share no
\* state; every event is handed to the callbacks of both.
EventLabelSets ==
  {<<"foc", "eng">>, <<"eng", "foc">>, <<"eng">>, <<"isActive/foc">>}

EventFrames == {<<1>>, <<1, 2>>, <<2, 1>>}

\* Both programs are started: CortexClient.start() runs run(), and
\* AttentionReader.start() is called.
Start ==
  /\ Run
  /\ ReaderStart
  /\ UNCHANGED <<consumerVars, storeVars, readerVars, scoreVars, last_event,
                 loopVars>>

\* The collaborator has its transport open and goes on to create a session.
TransportOpen ==
  /\ session = "connecting"
  /\ session' = "session_pending"
  /\ last_event' = [kind |-> "transport_open"]
  /\ UNCHANGED <<consumerVars, storeVars, readerVars, scoreVars, sub_requests,
                 ready_count, loopVars, attentionVars>>

\* The collaborator announces a session: create_session_done.
SessionReady ==
  /\ session \in {"session_pending", "subscribed"}
  /\ cpc = "idle"
  /\ ready_count < MaxSessionReady
  /\ ready_count' = ready_count + 1
  /\ OnCreateSessionDone
  /\ ReaderOnCreateSessionDone
  /\ last_event' = [kind |-> "session_ready"]
  /\ UNCHANGED <<consumerVars, storeVars, readerVars, scoreVars, loopVars>>

\* The collaborator announces the labels of a stream: new_data_labels.
LabelSet(streamName, labels) ==
  /\ session = "subscribed"
  /\ OnNewDataLabels(streamName, labels)
  /\ ReaderOnNewDataLabels(streamName, labels)
  /\ last_event' = [kind |-> "labels", stream |-> streamName, labels |-> labels]
  /\ UNCHANGED <<sessionVars, loopVars>>

\* The collaborator delivers a value frame of a stream, under the stream's
\* data event: the callback bound to that event runs, if there is one.
ValueFrame(streamName, frame) ==
  /\ session = "subscribed"
  /\ cpc = "idle"
  /\ IF Handles(DataEvent(streamName)) = "on_new_met_data"
       THEN /\ OnNewMetData(frame)
            /\ ReaderOnNewMetData(frame)
       ELSE UNCHANGED <<consumerVars, storeVars, readerVars, scoreVars,
                        attentionVars>>
  /\ last_event' = [kind |-> "frame", stream |-> streamName, values |-> frame]
  /\ UNCHANGED <<sessionVars, loopVars>>

\* The collaborator reports an error: inform_error.
ErrorNotification ==
  /\ session # "idle"
  /\ OnInformError
  /\ ReaderOnInformError
  /\ last_event' = [kind |-> "error"]
  /\ UNCHANGED <<sessionVars, loopVars>>

NextEvents ==
  \/ Start
  \/ TransportOpen
  \/ SessionReady
  \/ \E streamName \in Streams, labels \in EventLabelSets :
       LabelSet(streamName, labels)
  \/ \E streamName \in Streams, frame \in EventFrames :
       ValueFrame(streamName, frame)
  \/ ErrorNotification
  \/ MetStep

SpecEvents == Init /\ [][NextEvents]_vars

\* on_new_met_data taken statement by statement, its for loop one item at a
\* time, with on_new_data_labels free to run at any point in between:
\* self.metric_indices is guarded by no lock.
RaceLabelSets == {<<>>, <<"foc", "eng">>, <<"eng", "foc">>}

RaceFrames == {<<1>>, <<1, 2>>, <<2, 1>>}

\* on_new_data_labels (lines 52-58) run while on_new_met_data is in progress.
OnNewDataLabelsMeanwhile(streamName, labels) ==
  /\ cpc # "idle"
  /\ IF streamName = "met"
       THEN /\ metric_indices' = LabelResolver(labels)
            /\ last_met_labels' = labels
       ELSE UNCHANGED <<metric_indices, last_met_labels>>
  /\ UNCHANGED <<cpc, data, new_metrics, pending, pre, storeVars, readerVars,
                 scoreVars, restVars>>

\* new_metrics = {} and the evaluation of self.metric_indices.items()
\* (lines 67-68): the loop iterates over the dict the attribute names now.
MetLoopEnter ==
  /\ cpc = "project"
  /\ cpc' = "loop"
  /\ new_metrics' = EmptyDict
  /\ iter_indices' = metric_indices
  /\ iter_todo' = DOMAIN metric_indices
  /\ UNCHANGED <<metric_indices, data, pending, pre, last_met_labels, storeVars,
                 readerVars, scoreVars, sessionVars, last_event, attentionVars>>

\* Variant: the loop body looks the position of its label up in
\* self.metric_indices anew (and skips a label no longer there).
MetLoopItemRereads ==
  /\ cpc = "loop"
  /\ iter_todo # {}
  /\ \E label \in iter_todo :
       /\ new_metrics' =
            IF label \in DOMAIN metric_indices
               /\ Len(data) > metric_indices[label]
            THEN DictSet(new_metrics, label, At(data, metric_indices[label]))
            ELSE new_metrics
       /\ iter_todo' = iter_todo \ {label}
  /\ UNCHANGED <<metric_indices, cpc, data, pending, pre, last_met_labels,
                 storeVars, readerVars, scoreVars, iter_indices, sessionVars,
                 last_event, attentionVars>>

\* One pass of the loop body (lines 68-70) for an item (label, index) of the
\* dict being iterated.
MetLoopItem ==
  /\ cpc = "loop"
  /\ iter_todo # {}
  /\ \E label \in iter_todo :
       /\ new_metrics' =
            IF Len(data) > iter_indices[label]
            THEN DictSet(new_metrics, label, At(data, iter_indices[label]))
            ELSE new_metrics
       /\ iter_todo' = iter_todo \ {label}
  /\ UNCHANGED <<metric_indices, cpc, data, pending, pre, last_met_labels,
                 storeVars, readerVars, scoreVars, iter_indices, sessionVars,
                 last_event, attentionVars>>

\* The loop is exhausted; if new_metrics: (line 72).
MetLoopExit ==
  /\ cpc = "loop"
  /\ iter_todo = {}
  /\ pending' = DOMAIN new_metrics
  /\ cpc' = IF new_metrics = EmptyDict THEN "done" ELSE "lock"
  /\ UNCHANGED <<metric_indices, data, new_metrics, pre, last_met_labels,
                 storeVars, readerVars, scoreVars, restVars>>

NextRace ==
  \/ \E streamName \in Streams, labels \in RaceLabelSets :
       OnNewDataLabels(streamName, labels) /\ UNCHANGED restVars
  \/ \E streamName \in Streams, labels \in RaceLabelSets :
       OnNewDataLabelsMeanwhile(streamName, labels)
  \/ \E frame \in RaceFrames : OnNewMetData(frame) /\ UNCHANGED restVars
  \/ MetCheck
  \/ MetLoopEnter
  \/ MetLoopItem
  \/ MetLoopExit
  \/ MetLock
  \/ MetUpdate
  \/ MetUnlock
  \/ MetReturn

SpecRace == Init /\ [][NextRace]_vars

(***************************************************************************)
(* Properties.                                                             *)
(***************************************************************************)
\* The metrics of idx whose position lies inside frame.
InFrame(idx, frame) == {name \in DOMAIN idx : idx[name] < Len(frame)}

\* C1: every dict a read has copied, and every body it has replied, is the
\* snapshot as a completed merge left it (or the initial empty one): never a
\* snapshot with only some of the entries of a merge written.
C1_ReadIsAtomic ==
  \A r \in Readers :
    /\ rpc[r] \in {"unlock", "respond"} => Deref(r) = seen[r]
    /\ rpc[r] = "returned" => reply[r].body = seen[r]

\* A read holds its copy while a merge is half applied.
C1_Witness ==
  \E r \in Readers :
    /\ rpc[r] = "respond"
    /\ copy[r] # EmptyDict
    /\ cpc = "update"
    /\ pending # {}
    /\ latest_metrics # pre
    /\ \E q \in Readers : rpc[q] = "lock"

\* C2: when on_new_met_data has handled a frame with a non-empty
\* metric_indices, every metric whose position lies inside the frame has the
\* frame's value at that position in latest_metrics, and a metric whose
\* position lies outside the frame is not in the update.
C2_FrameProjected ==
  (cpc = "done" /\ metric_indices # EmptyDict) =>
    \A name \in DOMAIN metric_indices :
      IF metric_indices[name] < Len(data)
      THEN /\ name \in DOMAIN latest_metrics
           /\ latest_metrics[name] = At(data, metric_indices[name])
      ELSE name \notin DOMAIN new_metrics

\* A frame has overwritten one entry and added another.
C2_Witness ==
  /\ cpc = "done"
  /\ \E n1, n2 \in InFrame(metric_indices, data) :
       /\ n1 \in DOMAIN pre
       /\ pre[n1] # latest_metrics[n1]
       /\ n2 \notin DOMAIN pre

\* C3: when on_new_met_data has handled a frame shorter than the highest
\* position of metric_indices, every entry of latest_metrics other than those
\* of the metrics inside the frame is as it was when the frame arrived
\* (present with the same value, or absent as before).
C3_ShortFrameKeepsOthers ==
  (cpc = "done" /\ \E name \in DOMAIN metric_indices :
                      metric_indices[name] >= Len(data)) =>
    \A k \in (DOMAIN pre \cup DOMAIN latest_metrics)
             \ InFrame(metric_indices, data) :
      /\ k \in DOMAIN pre
      /\ k \in DOMAIN latest_metrics
      /\ latest_metrics[k] = pre[k]

\* A short frame has changed a metric inside it and left alone the entry of a
\* metric whose position it does not reach and a stale entry.
C3_Witness ==
  /\ cpc = "done"
  /\ \E n \in InFrame(metric_indices, data) :
       n \in DOMAIN pre /\ pre[n] # latest_metrics[n]
  /\ \E k \in DOMAIN metric_indices :
       /\ metric_indices[k] >= Len(data)
       /\ k \in DOMAIN pre
       /\ latest_metrics[k] = pre[k]

\* C4: metric_indices holds exactly the labels of the latest "met" label set
\* that do not contain the marker, each at a position where that label set
\* holds it; the label list of the example resolves to foc 0, eng 1, str 3.
C4_LabelsResolved ==
  /\ DOMAIN metric_indices =
       {last_met_labels[i] : i \in {j \in 1..Len(last_met_labels) :
          ~Contains(Marker, Chars(last_met_labels[j]))}}
  /\ \A name \in DOMAIN metric_indices :
       /\ metric_indices[name] \in 0..(Len(last_met_labels) - 1)
       /\ At(last_met_labels, metric_indices[name]) = name
  /\ LabelResolver(<<"foc", "eng", "isActive/foc", "str">>) =
       [name \in {"foc", "eng", "str"} |->
          CASE name = "foc" -> 0 [] name = "eng" -> 1 [] name = "str" -> 3]

\* A label set with an administrative label between two metrics is resolved.
C4_Witness ==
  /\ last_met_labels = <<"foc", "isActive/foc", "eng">>
  /\ DOMAIN metric_indices = {"foc", "eng"}
  /\ metric_indices["eng"] = 2

\* C5: the dict a read holds is never the global dict itself, and no step
\* taken while the read holds it changes its contents.
C5_CopyIsIsolated ==
  [][\A r \in Readers :
       /\ ref'[r] # "global"
       /\ (ref[r] # "none" /\ ref'[r] # "none") => Deref(r)' = Deref(r)]_vars

\* A merge has completed after a read took its copy, which differs from it.
C5_Witness ==
  \E r \in Readers :
    /\ rpc[r] = "respond"
    /\ cpc = "done"
    /\ latest_metrics # pre
    /\ copy[r] = pre
    /\ copy[r] # EmptyDict

\* C6: every reply of GET /metrics is a 200 whose body is the snapshot at the
\* time of the copy; while nothing has been merged the body is empty.
C6_ReadSucceeds ==
  \A r \in Readers :
    rpc[r] = "returned" =>
      /\ reply[r].status = 200
      /\ reply[r].body = seen[r]
      /\ latest_metrics = EmptyDict => reply[r].body = EmptyDict

\* A read is answered before any frame has been merged, one frame having been
\* discarded for want of labels or for being short.
C6_Witness ==
  \E r \in Readers :
    /\ rpc[r] = "returned"
    /\ reply[r] = [status |-> 200, body |-> EmptyDict]
    /\ latest_metrics = EmptyDict
    /\ cpc = "done"

InUnitInterval(x) == ~RLess(x, Zero) /\ ~RLess(One, x)

\* x with a value above 1 replaced by 1 and a value below 0 replaced by 0.
ClampedTo01(x) == IF RLess(One, x) THEN One ELSE IF RLess(x, Zero) THEN Zero ELSE x

\* C8: a call of flow_score whose six arguments lie in [0, 1] returns a value
\* in [0, 1].
C8_ScoreInUnitInterval ==
  (score_result # NoCall /\ \A i \in 1..6 : InUnitInterval(score_args[i])) =>
    InUnitInterval(score_result)

\* A call on arguments in [0, 1] has returned a value strictly inside (0, 1).
C8_Witness ==
  /\ score_result # NoCall
  /\ \A i \in 1..6 : InUnitInterval(score_args[i])
  /\ RLess(Zero, score_result)
  /\ RLess(score_result, One)

\* C9: a call of flow_score with an argument outside [0, 1] returns what
\* flow_score returns on the arguments clamped, each on its own, to [0, 1].
C9_OutOfRangeIsClamped ==
  (score_result # NoCall /\ \E i \in 1..6 : ~InUnitInterval(score_args[i])) =>
    score_result = flow_score(ClampedTo01(score_args[1]),
                              ClampedTo01(score_args[2]),
                              ClampedTo01(score_args[3]),
                              ClampedTo01(score_args[4]),
                              ClampedTo01(score_args[5]),
                              ClampedTo01(score_args[6]))

\* A call with stress above 1 and attention below 0 has returned a score
\* above 0.
C9_Witness ==
  /\ score_result # NoCall
  /\ RLess(One, score_args[1])
  /\ RLess(score_args[5], Zero)
  /\ RLess(Zero, score_result)

\* C10: flow_score(0.5, 1, 1, 0.5, 1, 0.5) is 1, and no call returns more.
C10_MaximumIsOne ==
  /\ flow_score(Half, One, One, Half, One, Half) = One
  /\ score_result # NoCall =>
       /\ ~RLess(One, score_result)
       /\ score_args = <<Half, One, One, Half, One, Half>> =>
            score_result = One

\* The call at stress = excitement = relaxation = 0.5 and engagement =
\* interest = attention = 1 has returned 1.
C10_Witness ==
  /\ score_args = <<Half, One, One, Half, One, Half>>
  /\ score_result = One

\* The positions of a label set whose label carries no administrative marker.
KeptPositions(labels) ==
  {p \in 0..(Len(labels) - 1) : ~Contains(Marker, Chars(At(labels, p)))}

\* C11: after any sequence of events the MetricIndex is exactly the resolution
\* of the most recent "met" label set (empty while none has arrived): its keys
\* are the labels of that set without the administrative marker, each mapped
\* to the position the label has in that set (the last one, should the label
\* repeat), and no key is carried over from an earlier label set.
C11_IndexIsLatestResolution ==
  /\ DOMAIN metric_indices =
       {At(last_met_labels, p) : p \in KeptPositions(last_met_labels)}
  /\ \A name \in DOMAIN metric_indices :
       /\ metric_indices[name] \in KeptPositions(last_met_labels)
       /\ At(last_met_labels, metric_indices[name]) = name
       /\ \A q \in KeptPositions(last_met_labels) :
            At(last_met_labels, q) = name => q <= metric_indices[name]
  /\ last_met_labels = <<>> => metric_indices = EmptyDict

\* A frame wrote "foc" under an earlier label set, and the label set announced
\* since has "eng" alone: the MetricIndex has dropped "foc".
C11_Witness ==
  /\ last_met_labels = <<"eng">>
  /\ metric_indices = DictSet(EmptyDict, "eng", 0)
  /\ "foc" \in DOMAIN latest_metrics

\* C12: while the MetricIndex is empty a value frame is discarded at the test
\* of lines 64-65: the handler goes on to no projection, lock or merge, and
\* no step taken with an empty MetricIndex changes the Snapshot. Hence no
\* write precedes the first label set with a kept label, and after a label
\* set whose labels are all filtered out frames are ignored until a label
\* set makes the MetricIndex non-empty again.
C12_EmptyIndexDiscardsFrame ==
  [][metric_indices = EmptyDict =>
       /\ latest_metrics' = latest_metrics
       /\ cpc' \notin {"project", "lock", "update"}]_vars

\* A frame has been handled to its end under an empty MetricIndex left by a
\* label set of administrative labels only, announced after earlier frames
\* had filled the Snapshot.
C12_Witness ==
  /\ cpc = "done"
  /\ data # <<>>
  /\ last_met_labels = <<"isActive/foc">>
  /\ metric_indices = EmptyDict
  /\ latest_metrics # EmptyDict
  /\ latest_metrics = pre

\* C13: a label-set event never changes the Snapshot, and no step removes a
\* key from it: a name written once stays, with its last written value,
\* across every later label set, a smaller one included.
C13_LabelSetKeepsSnapshot ==
  [][/\ DOMAIN latest_metrics \subseteq DOMAIN latest_metrics'
     /\ (metric_indices' # metric_indices \/ last_met_labels' # last_met_labels)
          => latest_metrics' = latest_metrics]_vars

\* "foc" was written as 1 under an earlier label set; the label set now is
\* "eng" alone, and a frame <<2>> handled since has left "foc" at 1.
C13_Witness ==
  /\ last_met_labels = <<"eng">>
  /\ cpc = "done"
  /\ data = <<2>>
  /\ "foc" \in DOMAIN latest_metrics
  /\ latest_metrics["foc"] = 1
  /\ "foc" \notin DOMAIN metric_indices

\* The positions at which a label set has the label name.
Occurrences(labels, name) == {p \in 0..(Len(labels) - 1) : At(labels, p) = name}

\* C19: when the most recent label set has a kept label more than once, the
\* MetricIndex has one entry for it, mapped to the position of its last
\* occurrence, and a frame long enough writes under that name the element at
\* that last position.
C19_DuplicateTakesLastPosition ==
  \A name \in DOMAIN metric_indices :
    LET occ == Occurrences(last_met_labels, name)
        last == CHOOSE p \in occ : \A q \in occ : q <= p
    IN Cardinality(occ) > 1 =>
         /\ metric_indices[name] = last
         /\ (cpc = "done" /\ Len(data) > last) =>
              /\ name \in DOMAIN latest_metrics
              /\ latest_metrics[name] = At(data, last)

\* Under the label set <<"foc", "eng", "foc">> the frame <<1, 1, 2>> has been
\* merged: "foc" holds 2, the element at its last position, not 1.
C19_Witness ==
  /\ last_met_labels = <<"foc", "eng", "foc">>
  /\ cpc = "done"
  /\ data = <<1, 1, 2>>
  /\ metric_indices["foc"] = 2
  /\ latest_metrics["foc"] = 2

\* C14: a label-set event whose stream name is not "met" is ignored outright:
\* the step that delivers it leaves the MetricIndex and the Snapshot, and
\* AttentionReader's met_labels and attention_index, exactly as they were.
C14_OtherStreamLabelsIgnored ==
  [][(last_event'.kind = "labels" /\ last_event'.stream # "met") =>
       UNCHANGED <<metric_indices, latest_metrics, met_labels,
                   attention_index>>]_vars

\* The labels <<"eng", "foc">> of stream "eeg" have been delivered while the
\* layout in force is <<"foc", "eng">>: neither program has taken them.
C14_Witness ==
  /\ last_event = [kind |-> "labels", stream |-> "eeg", labels |-> <<"eng", "foc">>]
  /\ last_met_labels = <<"foc", "eng">>
  /\ metric_indices = DictSet(DictSet(EmptyDict, "foc", 0), "eng", 1)
  /\ met_labels = <<"foc", "eng">>
  /\ attention_index = 0

\* C15: a value frame of a stream other than "met" is silently ignored: the
\* step that delivers it enters no callback (so nothing is raised) and leaves
\* the MetricIndex and the Snapshot unchanged.
C15_OtherStreamFrameIgnored ==
  [][(last_event'.kind = "frame" /\ last_event'.stream # "met") =>
       /\ UNCHANGED <<metric_indices, latest_metrics>>
       /\ cpc' = "idle"
       /\ cpc = "idle"]_vars

\* The frame <<2, 1>> of stream "eeg" has been delivered under a MetricIndex
\* that would have projected both of its elements: the Snapshot still holds
\* the values of the "met" frame <<1, 2>> before it.
C15_Witness ==
  /\ last_event = [kind |-> "frame", stream |-> "eeg", values |-> <<2, 1>>]
  /\ metric_indices = DictSet(DictSet(EmptyDict, "foc", 0), "eng", 1)
  /\ latest_metrics = DictSet(DictSet(EmptyDict, "foc", 1), "eng", 2)
  /\ cpc = "idle"

\* C16: an error notification changes neither the MetricIndex, the Snapshot
\* nor any other state of the consumer (so the state reached by a sequence
\* of events is the one reached without its error notifications), and it
\* does not stop the consumer: the label sets and value frames that follow
\* are still taken.
C16_ErrorIsInformational ==
  /\ [][last_event'.kind = "error" =>
          UNCHANGED <<consumerVars, storeVars, sessionVars, attentionVars>>]_vars
  /\ [](last_event.kind = "error" /\ session = "subscribed" =>
          /\ ENABLED LabelSet("met", <<"foc", "eng">>)
          /\ ENABLED ValueFrame("met", <<1, 2>>))

\* An error notification has been delivered in a subscribed session with a
\* MetricIndex, a Snapshot and an attention index in place.
C16_Witness ==
  /\ last_event = [kind |-> "error"]
  /\ session = "subscribed"
  /\ metric_indices # EmptyDict
  /\ latest_metrics # EmptyDict
  /\ attention_index # -1

\* C17: the session goes idle -> connecting -> session_pending -> subscribed
\* and in no other order; a subscription request is issued only by the step
\* that delivers a session-ready event, one request per event and program,
\* and every request names exactly the stream "met".
C17_SubscribeOnSessionReady ==
  /\ [](/\ Len(sub_requests) = ready_count
        /\ Len(reader_requests) = ready_count
        /\ \A i \in 1..Len(sub_requests) : sub_requests[i] = <<"met">>
        /\ \A i \in 1..Len(reader_requests) : reader_requests[i] = <<"met">>
        /\ (session = "subscribed") <=> (ready_count > 0))
  /\ [][/\ session' # session =>
            <<session, session'>> \in {<<"idle", "connecting">>,
                                      <<"connecting", "session_pending">>,
                                      <<"session_pending", "subscribed">>}
        /\ (sub_requests' # sub_requests \/ reader_requests' # reader_requests) =>
            /\ last_event' = [kind |-> "session_ready"]
            /\ session \in {"session_pending", "subscribed"}
            /\ sub_requests' = Append(sub_requests, <<"met">>)
            /\ reader_requests' = Append(reader_requests, <<"met">>)]_vars

\* Two session-ready events have been delivered, and each program has issued
\* two requests for "met".
C17_Witness ==
  /\ ready_count = 2
  /\ session = "subscribed"
  /\ sub_requests = <<<<"met">>, <<"met">>>>
  /\ reader_requests = <<<<"met">>, <<"met">>>>

\* C18: in AttentionReader, whenever attention_index is not -1 the label at
\* position attention_index of met_labels is "foc", also after a label set
\* announced anew has moved or dropped "foc".
C18_AttentionIndexPointsAtFoc ==
  attention_index # -1 =>
    /\ attention_index < Len(met_labels)
    /\ At(met_labels, attention_index) = "foc"

\* C20: with on_new_data_labels free to replace the MetricIndex at any point
\* of on_new_met_data, the update built for a frame is still computed from a
\* single MetricIndex: the dict the loop iterates over is the resolution of
\* one label set, every (name, value) of the update satisfies
\* value = frame[position of name in that dict], and once the merge is done
\* the Snapshot holds exactly these values under these names.
C20_UpdateFromOneIndex ==
  cpc \in {"loop", "lock", "update", "done"} =>
    /\ \E labels \in RaceLabelSets : iter_indices = LabelResolver(labels)
    /\ \A name \in DOMAIN new_metrics :
         /\ name \in DOMAIN iter_indices
         /\ Len(data) > iter_indices[name]
         /\ new_metrics[name] = At(data, iter_indices[name])
         /\ cpc = "done" => latest_metrics[name] = new_metrics[name]

\* The frame <<1, 2>> was projected through the index of <<"foc", "eng">>
\* while the label set <<"eng", "foc">> replaced the MetricIndex under it:
\* the update is that of the first label set alone.
C20_Witness ==
  /\ cpc = "done"
  /\ data = <<1, 2>>
  /\ iter_indices = LabelResolver(<<"foc", "eng">>)
  /\ metric_indices = LabelResolver(<<"eng", "foc">>)
  /\ new_metrics = DictSet(DictSet(EmptyDict, "foc", 1), "eng", 2)
  /\ latest_metrics = new_metrics

=============================================================================
